---------------------------- MODULE Spec2Model ----------------------------
(***************************************************************************)
(* Model of node_exporter.go: the metrics handler (newHandler, ServeHTTP,  *)
(* innerHandler) and the IP allowlist middleware (ipRestrictMiddleware).   *)
(*                                                                         *)
(* Address strings are sequences of one-character strings so that the      *)
(* parsing done by net.SplitHostPort, net.ParseCIDR and net.ParseIP is     *)
(* computed character by character.  Collector names are atomic strings.   *)
(* h.enabledCollectors is a Go slice: a header (array, len) over a backing *)
(* array on a heap, so that append's reallocation and sort's in-place      *)
(* writes are visible to concurrent readers as they are in the program.    *)
(***************************************************************************)
EXTENDS Integers, Sequences, FiniteSets, TLC

(***************************************************************************)
(* Bounds of the model.                                                    *)
(***************************************************************************)
\* connections served concurrently by the net/http runtime
Conns == {"c1", "c2"}
\* most collect[] and exclude[] parameters in the query of one request
MaxParams == 2
\* longest allowlist
MaxAllow == 2
\* filtered handlers built by requests over a run
MaxFiltered == 2
\* longest h.enabledCollectors the run may grow to
MaxListLen == 4

(***************************************************************************)
(* Characters and strings.                                                 *)
(***************************************************************************)
Digits == <<"0", "1", "2", "3", "4", "5", "6", "7", "8", "9">>

IsDigit(c) == \E i \in 1..10 : Digits[i] = c

DigitVal(c) == (CHOOSE i \in 1..10 : Digits[i] = c) - 1

\* strings.Contains(s, c) for a one-character c
Contains(s, c) == \E i \in 1..Len(s) : s[i] = c

\* bytealg.IndexByteString: first position of c in s (1-based), 0 when absent
IndexByte(s, c) ==
    IF Contains(s, c) THEN CHOOSE i \in 1..Len(s) : s[i] = c /\ \A j \in 1..(i-1) : s[j] # c
    ELSE 0

\* bytealg.LastIndexByteString: last position of c in s (1-based), 0 when absent
LastIndexByte(s, c) ==
    IF Contains(s, c)
    THEN CHOOSE i \in 1..Len(s) : s[i] = c /\ \A j \in (i+1)..Len(s) : s[j] # c
    ELSE 0

\* s[a:b] of Go with 1-based inclusive positions a..b
Slice(s, a, b) == [k \in 1..(b - a + 1) |-> s[a + k - 1]]

\* The request's remote address strings and the allowlist entries.
A_10_1_2_3_p == <<"1","0",".","1",".","2",".","3",":","8","0">>
A_8_8_8_8_p == <<"8",".","8",".","8",".","8",":","8","0">>
A_192_168_1_5_p == <<"1","9","2",".","1","6","8",".","1",".","5",":","9">>
A_weird == <<"w","e","i","r","d">>
A_192_168_1_5 == <<"1","9","2",".","1","6","8",".","1",".","5">>
A_colons == <<"8",".","8",".","8",".","8",":","8",":","0">>

E_10_8 == <<"1","0",".","0",".","0",".","0","/","8">>
E_192_168_1_5 == A_192_168_1_5
E_192_168_1_4_31 == <<"1","9","2",".","1","6","8",".","1",".","4","/","3","1">>
E_bad_33 == <<"8",".","8",".","8",".","8","/","3","3">>
E_bad_x == <<"8",".","8",".","8",".","0","/","x">>
E_weird == A_weird

RemoteAddrs == {A_10_1_2_3_p, A_8_8_8_8_p, A_192_168_1_5_p, A_weird, A_192_168_1_5, A_colons}

AllowEntries == {E_10_8, E_192_168_1_5, E_192_168_1_4_31, E_bad_33, E_bad_x, E_weird}

(***************************************************************************)
(* net.SplitHostPort, net.ParseIP, net.ParseCIDR, IPNet.Contains.          *)
(***************************************************************************)
NoIP == <<>>

\* net.SplitHostPort: [ok, host].  An address starting with "[" takes the
\* bracketed branch; every other address must hold exactly one colon.
SplitHostPort(hostport) ==
    LET i == LastIndexByte(hostport, ":")
        fail == [ok |-> FALSE, host |-> <<>>]
    IN  IF i = 0 THEN fail
        ELSE IF hostport[1] = "["
        THEN LET end == IndexByte(hostport, "]")
             IN  IF end = 0 THEN fail
                 ELSE IF end + 1 # i THEN fail
                 ELSE IF Contains(Slice(hostport, 2, Len(hostport)), "[") THEN fail
                 ELSE IF Contains(Slice(hostport, end + 1, Len(hostport)), "]") THEN fail
                 ELSE [ok |-> TRUE, host |-> Slice(hostport, 2, end - 1)]
        ELSE LET host == Slice(hostport, 1, i - 1)
             IN  IF Contains(host, ":") THEN fail
                 ELSE IF Contains(hostport, "[") \/ Contains(hostport, "]") THEN fail
                 ELSE [ok |-> TRUE, host |-> host]

\* netip.parseIPv4Fields: scan from position i with the octet value val, its
\* digit count digLen and the octets read so far; NoIP on any error.
RECURSIVE ParseIPv4Fields(_, _, _, _, _)
ParseIPv4Fields(s, i, val, digLen, fields) ==
    IF i > Len(s)
    THEN IF Len(fields) < 3 THEN NoIP ELSE Append(fields, val)
    ELSE IF IsDigit(s[i])
    THEN IF digLen = 1 /\ val = 0 THEN NoIP
         ELSE LET v == val * 10 + DigitVal(s[i])
              IN  IF v > 255 THEN NoIP
                  ELSE ParseIPv4Fields(s, i + 1, v, digLen + 1, fields)
    ELSE IF s[i] = "."
    THEN IF i = 1 \/ i = Len(s) \/ s[i-1] = "." THEN NoIP
         ELSE IF Len(fields) = 3 THEN NoIP
         ELSE ParseIPv4Fields(s, i + 1, 0, 0, Append(fields, val))
    ELSE NoIP

\* net.ParseIP: the four octets of a dotted-quad string, NoIP (nil) otherwise.
\* A string whose first ":" comes before any "." goes to the IPv6 parser; no
\* string of RemoteAddrs or AllowEntries is a valid IPv6 literal, so that
\* parser's answer for them is nil.
ParseIP(s) ==
    IF Len(s) = 0 THEN NoIP
    ELSE LET c == IndexByte(s, ":")
             d == IndexByte(s, ".")
         IN  IF d = 0 THEN NoIP
             ELSE IF c # 0 /\ c < d THEN NoIP
             ELSE ParseIPv4Fields(s, 1, 0, 0, <<>>)

\* net.dtoi: [n, i, ok] for the leading decimal digits of s
RECURSIVE DtoiFrom(_, _, _)
DtoiFrom(s, i, n) ==
    IF i <= Len(s) /\ IsDigit(s[i])
    THEN LET v == n * 10 + DigitVal(s[i])
         IN  IF v >= 16777215 THEN [n |-> 16777215, i |-> i - 1, ok |-> FALSE]
             ELSE DtoiFrom(s, i + 1, v)
    ELSE IF i = 1 THEN [n |-> 0, i |-> 0, ok |-> FALSE]
    ELSE [n |-> n, i |-> i - 1, ok |-> TRUE]

Pow2(k) == CASE k = 0 -> 1 [] k = 1 -> 2 [] k = 2 -> 4 [] k = 3 -> 8 [] k = 4 -> 16
             [] k = 5 -> 32 [] k = 6 -> 64 [] k = 7 -> 128 [] k = 8 -> 256

\* the byte b ANDed with a mask byte whose top `bits` bits are set
AndMask(b, bits) == b - (b % Pow2(8 - bits))

\* the number of mask bits of net.CIDRMask(n, 32) that fall in byte k (1..4)
MaskBits(n, k) ==
    LET r == n - 8 * (k - 1) IN IF r < 0 THEN 0 ELSE IF r > 8 THEN 8 ELSE r

\* IP.Mask
MaskIP(ip, n) == [k \in 1..4 |-> AndMask(ip[k], MaskBits(n, k))]

\* net.ParseCIDR: [ok, ip (the masked network address), n (the prefix length)]
ParseCIDR(s) ==
    LET i == IndexByte(s, "/")
        fail == [ok |-> FALSE, ip |-> NoIP, n |-> 0]
    IN  IF i = 0 THEN fail
        ELSE LET addr == Slice(s, 1, i - 1)
                 mask == Slice(s, i + 1, Len(s))
                 ipAddr == ParseIP(addr)
                 d == DtoiFrom(mask, 1, 0)
             IN  IF ipAddr = NoIP THEN fail
                 ELSE IF ~d.ok \/ d.i # Len(mask) \/ d.n > 32 THEN fail
                 ELSE [ok |-> TRUE, ip |-> MaskIP(ipAddr, d.n), n |-> d.n]

\* IPNet.Contains: every byte of ip, masked, equals the network's byte
IPNetContains(ipNet, ip) ==
    \A k \in 1..4 : ipNet.ip[k] = AndMask(ip[k], MaskBits(ipNet.n, k))

(***************************************************************************)
(* Collector names and the collector factory.                              *)
(***************************************************************************)
\* every name a request may put in collect[] or exclude[], in the byte order
\* sort.Strings compares them by
NameOrder == <<"bogus", "cpu", "disk", "zfs">>

Names == {NameOrder[i] : i \in 1..Len(NameOrder)}

\* a < b as Go compares strings
StrLess(a, b) ==
    (CHOOSE i \in 1..Len(NameOrder) : NameOrder[i] = a)
        < (CHOOSE i \in 1..Len(NameOrder) : NameOrder[i] = b)

\* the collectors registered with the factory ("bogus" is not one of them)
Registered == {"cpu", "disk", "zfs"}

\* the collectors whose construction fails on this host
Failing == {"zfs"}

\* the sets of collectors the command line may enable
EnabledChoices == {{"cpu", "disk"}, {"cpu", "disk", "zfs"}}

Range(s) == {s[i] : i \in 1..Len(s)}

\* all sequences over S of length at most n
SeqsUpTo(S, n) == UNION {[1..k -> S] : k \in 0..n}

\* slices.Index(s, c): first index of c in s (0-based), -1 when absent
SlicesIndex(s, c) ==
    IF \E i \in 1..Len(s) : s[i] = c
    THEN (CHOOSE i \in 1..Len(s) : s[i] = c /\ \A j \in 1..(i-1) : s[j] # c) - 1
    ELSE -1

\* collector.NewNodeCollector(logger, filters...): no filter selects every
\* enabled collector, filters select the collectors they name.  The first
\* filter naming no registered collector is an error, and so is a selected
\* collector whose construction fails.
NewNodeCollector(enabled, filters) ==
    LET bad == {i \in 1..Len(filters) : filters[i] \notin Registered}
        sel == IF Len(filters) = 0 THEN enabled ELSE Range(filters)
    IN  IF bad # {}
        THEN LET i == CHOOSE k \in bad : \A j \in bad : k <= j
             IN  [ok |-> FALSE, Collectors |-> {},
                  err |-> <<"missing collector: ", filters[i]>>]
        ELSE IF sel \cap Failing # {}
        THEN [ok |-> FALSE, Collectors |-> {},
              err |-> <<"collector failed: ", CHOOSE n \in sel \cap Failing : TRUE>>]
        ELSE [ok |-> TRUE, Collectors |-> sel, err |-> <<>>]

(***************************************************************************)
(* Go slices over a heap of backing arrays.                                *)
(***************************************************************************)
\* the zero value of a string cell
ZeroStr == ""

\* a nil slice
NilSlice == [arr |-> 0, len |-> 0]

SliceCap(heap, sl) == IF sl.arr = 0 THEN 0 ELSE Len(heap[sl.arr])

\* the elements sl[0:len]
SliceElems(heap, sl) == [i \in 1..sl.len |-> heap[sl.arr][i]]

\* append(sl, x): [heap, sl].  With spare capacity the element is written in
\* place into the shared backing array; without, a new array of twice the
\* capacity is allocated and the elements are copied into it.
GoAppend(heap, sl, x) ==
    IF sl.len < SliceCap(heap, sl)
    THEN [heap |-> [heap EXCEPT ![sl.arr][sl.len + 1] = x],
          sl |-> [arr |-> sl.arr, len |-> sl.len + 1]]
    ELSE LET cap == SliceCap(heap, sl)
             newcap == IF cap = 0 THEN 1 ELSE 2 * cap
             new == [i \in 1..newcap |->
                        IF i <= sl.len THEN heap[sl.arr][i]
                        ELSE IF i = sl.len + 1 THEN x ELSE ZeroStr]
         IN  [heap |-> Append(heap, new),
              sl |-> [arr |-> Len(heap) + 1, len |-> sl.len + 1]]

\* insertion of x into the sorted sequence s
RECURSIVE InsertSorted(_, _)
InsertSorted(s, x) ==
    IF Len(s) = 0 THEN <<x>>
    ELSE IF StrLess(x, s[Len(s)])
    THEN Append(InsertSorted(SubSeq(s, 1, Len(s) - 1), x), s[Len(s)])
    ELSE Append(s, x)

\* the elements of s in ascending order (insertion sort, as sort.Strings runs
\* on short slices)
RECURSIVE SortedSeq(_)
SortedSeq(s) ==
    IF Len(s) = 0 THEN <<>>
    ELSE InsertSorted(SortedSeq(SubSeq(s, 1, Len(s) - 1)), s[Len(s)])

\* sort.Strings(sl): the heap after sorting sl[0:len] in place
GoSortStrings(heap, sl) ==
    IF sl.len = 0 THEN heap
    ELSE LET sorted == SortedSeq(SliceElems(heap, sl))
         IN  [heap EXCEPT ![sl.arr] =
                 [i \in 1..Len(heap[sl.arr]) |->
                     IF i <= sl.len THEN sorted[i] ELSE heap[sl.arr][i]]]

\* appending every name of the set todo, in ascending order
RECURSIVE AppendAll(_, _, _)
AppendAll(heap, sl, todo) ==
    IF todo = {} THEN [heap |-> heap, sl |-> sl]
    ELSE LET n == CHOOSE x \in todo : \A y \in todo : x = y \/ StrLess(x, y)
             r == GoAppend(heap, sl, n)
         IN  AppendAll(r.heap, r.sl, todo \ {n})

(***************************************************************************)
(* State.                                                                  *)
(***************************************************************************)
VARIABLES
    phase,                  \* main: "init", "built", "listening", or "aborted"
                            \* (panic in newHandler), "exited" (os.Exit(1))
    metricsPath,            \* the flag web.telemetry-path
    mux,                    \* the routes registered with http.Handle
    load,                   \* the traffic of the run, see conns below
    allowedIPs,             \* the allowlist handed to ipRestrictMiddleware
    includeExporterMetrics, \* handler.includeExporterMetrics
    maxRequests,            \* handler.maxRequests
    enabledFlags,           \* the collectors enabled on the command line
    unfilteredHandler,      \* handler.unfilteredHandler
    enabledCollectors,      \* handler.enabledCollectors (slice header)
    heap,                   \* the backing arrays of enabledCollectors
    registries,             \* prometheus.NewRegistry() calls of innerHandler
    inFlightSem,            \* per promhttp handler: its in-flight semaphore
    pc,                     \* per connection: where its request stands
    mw,                     \* per connection: the middleware's view
    rq,                     \* per connection: ServeHTTP's locals
    rsp,                    \* per connection: what was written to it
    startupEnabled          \* history: enabledCollectors as newHandler left it

vars == <<phase, metricsPath, mux, load, allowedIPs, includeExporterMetrics,
          maxRequests, enabledFlags, unfilteredHandler, enabledCollectors, heap,
          registries, inFlightSem, pc, mw, rq, rsp, startupEnabled>>

config == <<load, metricsPath, allowedIPs, includeExporterMetrics,
            maxRequests, enabledFlags>>

\* http.ResponseWriter capabilities: no http.Hijacker, a Hijacker whose
\* Hijack() returns an error, a Hijacker whose Hijack() succeeds
Transports == {"none", "err", "ok"}

\* the values of web.max-requests the model runs with (0 disables the limit)
MaxRequestsChoices == {0, 1}

\* the queries a request may carry: its collect[] and its exclude[] values
Queries ==
    {q \in [collects : SeqsUpTo(Names, MaxParams), excludes : SeqsUpTo(Names, MaxParams)] :
        Len(q.collects) + Len(q.excludes) <= MaxParams}

\* the handler ids innerHandler may hand out: the startup one and the filtered
MaxHandlers == MaxFiltered + 1

\* the queries of a run that is about the allowlist: no filter, and every
\* enabled collector excluded
QueriesAcl ==
    {q \in Queries :
        /\ q.collects = <<>>
        /\ q.excludes \in {<<>>, <<"disk", "cpu">>}}

\* the queries of a run with concurrent requests: no filter, a collector, an
\* unknown collector, every enabled collector excluded, one excluded, none
\* excluded, and a combined query
QueriesConcurrent ==
    {q \in Queries :
        /\ q.collects \in {<<>>, <<"cpu">>, <<"bogus">>}
        /\ q.excludes \in {<<>>, <<"disk">>, <<"bogus">>, <<"disk", "cpu">>}}

\* the remote addresses of a run that is about the handler: one inside and
\* one outside the allowlist
ClientsHandler == {A_10_1_2_3_p, A_8_8_8_8_p}

\* the values of web.telemetry-path the model runs with
MetricsPaths == {"/metrics", "/"}

\* the URL paths a request may ask for
RequestPaths == {"/metrics", "/", "/other"}

\* The traffic of a run.  "concurrent": every connection of Conns is served at
\* the same time, with the queries of QueriesConcurrent, on the metrics path.
\* "sequential": one connection, every query, every path.  "acl": one
\* connection, every remote address.  "routes": one connection, every remote
\* address and every path.
conns == IF load = "concurrent" THEN Conns ELSE {CHOOSE t \in Conns : TRUE}

clients == IF load \in {"acl", "routes"} THEN RemoteAddrs ELSE ClientsHandler

queries ==
    CASE load \in {"acl", "routes"} -> QueriesAcl
      [] load = "sequential" -> Queries
      [] load = "concurrent" -> QueriesConcurrent

paths ==
    CASE load = "concurrent" -> {"/metrics"}
      [] load = "acl" -> {"/metrics", "/"}
      [] load \in {"sequential", "routes"} -> RequestPaths

NoHandler == [id |-> 0, gatherers |-> <<>>, max |-> 0, instrumented |-> FALSE,
              collectors |-> {}]

\* the middleware's view of a request: r.RemoteAddr, the ip it resolved, what
\* the writer can do, the URL path, the handler the mux picked and the
\* decision taken
MwIdle == [remoteAddr |-> <<>>, ip |-> <<>>, hijacker |-> "-", path |-> "-",
           handler |-> "-", decision |-> "-"]

\* ServeHTTP's locals; seen is history: h.enabledCollectors as the exclude loop
\* found it when it evaluated its range expression
RqIdle == [mode |-> "-", collects |-> <<>>, excludes |-> <<>>,
           rng |-> [arr |-> 0, len |-> 0, i |-> 0], seen |-> <<>>,
           f |-> <<>>, filters |-> <<>>, nc |-> {}, todo |-> {},
           handler |-> NoHandler]

\* what a connection has seen: the status line and body written to it, whether
\* it was taken over, and the calls of hj.Hijack(), conn.Close() and
\* next.ServeHTTP made for its request
RspIdle == [status |-> 0, body |-> <<>>, hijacked |-> FALSE, hijackCalls |-> 0,
            closeCalls |-> 0, nextCalls |-> 0]

\* the value of h.enabledCollectors
EnabledList == SliceElems(heap, enabledCollectors)

(***************************************************************************)
(* ipRestrictMiddleware.                                                   *)
(***************************************************************************)
\* PassThrough with the empty allowlist read as "allow nobody"
PassThrough_Never(list) == FALSE

\* len(allowedIPs) == 0: allow all access
PassThrough(list) == Len(list) = 0

\* ResolveIP keeping the empty host SplitHostPort returns with its error
ResolveIP_NoFallback(remoteAddr) == SplitHostPort(remoteAddr).host

\* the client IP: the host of RemoteAddr, or RemoteAddr itself when it does
\* not split
ResolveIP(remoteAddr) ==
    LET r == SplitHostPort(remoteAddr) IN IF r.ok THEN r.host ELSE remoteAddr

\* one iteration of the allowlist loop: exact match, or CIDR match
EntryMatches(allowedIP, ip) ==
    \/ allowedIP = ip
    \/ /\ Contains(allowedIP, "/")
       /\ LET c == ParseCIDR(allowedIP)
          IN  /\ c.ok
              /\ LET clientIP == ParseIP(ip)
                 IN  clientIP # NoIP /\ IPNetContains(c, clientIP)

\* AllowedFrom leaving the loop at an entry with "/" that is no CIDR range
RECURSIVE AllowedFrom_StopsAtBadCIDR(_, _, _)
AllowedFrom_StopsAtBadCIDR(list, k, ip) ==
    IF k > Len(list) THEN FALSE
    ELSE IF EntryMatches(list[k], ip) THEN TRUE
    ELSE IF Contains(list[k], "/") /\ ~ParseCIDR(list[k]).ok THEN FALSE
    ELSE AllowedFrom_StopsAtBadCIDR(list, k + 1, ip)

\* AllowedFrom without the break, every entry assigning to allowed: the last
\* entry decides
RECURSIVE AllowedFrom_LastDecides(_, _, _)
AllowedFrom_LastDecides(list, k, ip) ==
    IF k > Len(list) THEN FALSE
    ELSE IF k = Len(list) THEN EntryMatches(list[k], ip)
    ELSE AllowedFrom_LastDecides(list, k + 1, ip)

\* the allowlist loop from entry k on, breaking at the first match
RECURSIVE AllowedFrom(_, _, _)
AllowedFrom(list, k, ip) ==
    IF k > Len(list) THEN FALSE
    ELSE IF EntryMatches(list[k], ip) THEN TRUE
    ELSE AllowedFrom(list, k + 1, ip)

IsAllowed(list, ip) == AllowedFrom(list, 1, ip)

\* the text of the error a failing Hijack() returns
HijackErr == "hijack failed"

\* DenyOutcome answering 403 over HTTP instead of taking the connection over
DenyOutcome_WritesForbidden(hijacker) ==
    [status |-> 403, body |-> <<"Forbidden", "\n">>,
     hijacked |-> FALSE, hijackCalls |-> 0, closeCalls |-> 0, nextCalls |-> 0]

\* DenyOutcome without the return after http.Error: the request goes on to
\* the downstream handler
DenyOutcome_FallsThrough(hijacker) ==
    CASE hijacker = "none" ->
            [status |-> 500, body |-> <<"Webserver doesn't support hijacking", "\n">>,
             hijacked |-> FALSE, hijackCalls |-> 0, closeCalls |-> 0, nextCalls |-> 1]
      [] hijacker = "err" ->
            [status |-> 500, body |-> <<HijackErr, "\n">>,
             hijacked |-> FALSE, hijackCalls |-> 1, closeCalls |-> 0, nextCalls |-> 1]
      [] hijacker = "ok" ->
            [status |-> 0, body |-> <<>>,
             hijacked |-> TRUE, hijackCalls |-> 1, closeCalls |-> 2, nextCalls |-> 0]

\* DenyOutcome returning without an answer when the writer is no Hijacker
DenyOutcome_NoFallback(hijacker) ==
    CASE hijacker = "none" ->
            [status |-> 0, body |-> <<>>,
             hijacked |-> FALSE, hijackCalls |-> 0, closeCalls |-> 0, nextCalls |-> 0]
      [] hijacker = "err" ->
            [status |-> 500, body |-> <<HijackErr, "\n">>,
             hijacked |-> FALSE, hijackCalls |-> 1, closeCalls |-> 0, nextCalls |-> 0]
      [] hijacker = "ok" ->
            [status |-> 0, body |-> <<>>,
             hijacked |-> TRUE, hijackCalls |-> 1, closeCalls |-> 2, nextCalls |-> 0]

\* the denial branch: what the connection has seen when the middleware
\* returns.  On a successful Hijack() conn.Close() is called twice: directly,
\* and again by the deferred call when the function returns.
DenyOutcome(hijacker) ==
    CASE hijacker = "none" ->
            [status |-> 500, body |-> <<"Webserver doesn't support hijacking", "\n">>,
             hijacked |-> FALSE, hijackCalls |-> 0, closeCalls |-> 0, nextCalls |-> 0]
      [] hijacker = "err" ->
            [status |-> 500, body |-> <<HijackErr, "\n">>,
             hijacked |-> FALSE, hijackCalls |-> 1, closeCalls |-> 0, nextCalls |-> 0]
      [] hijacker = "ok" ->
            [status |-> 0, body |-> <<>>,
             hijacked |-> TRUE, hijackCalls |-> 1, closeCalls |-> 2, nextCalls |-> 0]

\* Routes with the landing page registered without the middleware
Routes_LandingUnrestricted(path, allowlist) ==
    {[pattern |-> path, handler |-> "metrics", wrapped |-> TRUE, allowlist |-> allowlist]}
        \cup IF path # "/"
             THEN {[pattern |-> "/", handler |-> "landing", wrapped |-> FALSE,
                    allowlist |-> <<>>]}
             ELSE {}

\* the http.Handle calls of main: the metrics handler on the metrics path and,
\* unless that path is "/", the landing page on "/", each inside an
\* ipRestrictMiddleware over the allowlist
Routes(path, allowlist) ==
    {[pattern |-> path, handler |-> "metrics", wrapped |-> TRUE, allowlist |-> allowlist]}
        \cup IF path # "/"
             THEN {[pattern |-> "/", handler |-> "landing", wrapped |-> TRUE,
                    allowlist |-> allowlist]}
             ELSE {}

\* the answer of http.DefaultServeMux for a path no pattern matches
NoRoute == [pattern |-> "", handler |-> "notfound", wrapped |-> FALSE, allowlist |-> <<>>]

\* http.DefaultServeMux, which the server uses as it has no Handler: the
\* pattern equal to the path, else the subtree pattern "/", else not found
MuxHandler(m, path) ==
    IF \E r \in m : r.pattern = path THEN CHOOSE r \in m : r.pattern = path
    ELSE IF \E r \in m : r.pattern = "/" THEN CHOOSE r \in m : r.pattern = "/"
    ELSE NoRoute

\* where a request goes when the handler of its route is called
Downstream(handlerName) == IF handlerName = "metrics" THEN "serve" ELSE "landing"

\* a request arrives: the mux picks the route of its path and calls the
\* route's handler, the function ipRestrictMiddleware returned, which runs up
\* to its call of next.ServeHTTP or to its return
Middleware(t) ==
    /\ phase = "listening"
    /\ t \in conns
    /\ pc[t] = "idle"
    /\ \E remoteAddr \in clients, hijacker \in Transports, path \in paths :
          LET route == MuxHandler(mux, path)
              m0 == [remoteAddr |-> remoteAddr, ip |-> <<>>, hijacker |-> hijacker,
                     path |-> path, handler |-> route.handler, decision |-> "-"]
          IN  IF route.handler = "notfound"
              THEN /\ mw' = [mw EXCEPT ![t] = m0]
                   /\ rsp' = [rsp EXCEPT ![t].status = 404,
                                         ![t].body = <<"404 page not found", "\n">>]
                   /\ pc' = [pc EXCEPT ![t] = "done"]
              ELSE IF ~route.wrapped
              THEN /\ mw' = [mw EXCEPT ![t] = [m0 EXCEPT !.decision = "unwrapped"]]
                   /\ rsp' = [rsp EXCEPT ![t].nextCalls = 1]
                   /\ pc' = [pc EXCEPT ![t] = Downstream(route.handler)]
              ELSE IF PassThrough(route.allowlist)
              THEN /\ mw' = [mw EXCEPT ![t] = [m0 EXCEPT !.decision = "passthrough"]]
                   /\ rsp' = [rsp EXCEPT ![t].nextCalls = 1]
                   /\ pc' = [pc EXCEPT ![t] = Downstream(route.handler)]
              ELSE LET ip == ResolveIP(remoteAddr)
                       allowed == IsAllowed(route.allowlist, ip)
                   IN  /\ mw' = [mw EXCEPT ![t] =
                                    [m0 EXCEPT !.ip = ip,
                                               !.decision = IF allowed THEN "allowed"
                                                            ELSE "denied"]]
                       /\ IF allowed
                          THEN /\ rsp' = [rsp EXCEPT ![t].nextCalls = 1]
                               /\ pc' = [pc EXCEPT ![t] = Downstream(route.handler)]
                          ELSE /\ rsp' = [rsp EXCEPT ![t] = DenyOutcome(hijacker)]
                               /\ pc' = [pc EXCEPT ![t] = "done"]
    /\ UNCHANGED <<phase, mux, config, unfilteredHandler, enabledCollectors, heap,
                   registries, inFlightSem, rq, startupEnabled>>

\* the answers of the landing page: the page, or not found for a path that
\* is not its own
LandingAnswers == {[status |-> 200, body |-> <<"<html>Node Exporter</html>">>],
                   [status |-> 404, body |-> <<"404 page not found", "\n">>]}

\* the landing page handler serves the request
LandingPage(t) ==
    /\ pc[t] = "landing"
    /\ \E a \in LandingAnswers :
          rsp' = [rsp EXCEPT ![t].status = a.status, ![t].body = a.body]
    /\ pc' = [pc EXCEPT ![t] = "done"]
    /\ UNCHANGED <<phase, mux, config, unfilteredHandler, enabledCollectors, heap,
                   registries, inFlightSem, mw, rq, startupEnabled>>

(***************************************************************************)
(* handler: newHandler, ServeHTTP, innerHandler.                           *)
(***************************************************************************)
\* the promhttp handler innerHandler returns for the registry `id`
MakeHandler(id, collectors) ==
    [id |-> id,
     gatherers |-> IF includeExporterMetrics THEN <<0, id>> ELSE <<id>>,
     max |-> maxRequests,
     instrumented |-> includeExporterMetrics,
     collectors |-> collectors]

\* fmt.Errorf("couldn't create collector: %s", err)
CollectorErr(err) == <<"couldn't create collector: ">> \o err

\* BuildFailed answering 500 without the error text
BuildFailed_ServerError(err) ==
    [status |-> 500, body |-> <<"Couldn't create filtered metrics handler">>]

\* ServeHTTP's answer when innerHandler returns an error
BuildFailed(err) ==
    [status |-> 400,
     body |-> <<"Couldn't create filtered metrics handler: ">> \o err]

\* ServeHTTP's answer to a request with both collect[] and exclude[]
CombinedRejected ==
    [status |-> 400,
     body |-> <<"Combined collect and exclude queries are not allowed.">>]

\* Branch without the check for combined queries
Branch_NoCombinedCheck(collects, excludes) ==
    IF Len(collects) = 0 /\ Len(excludes) = 0 THEN "unfiltered"
    ELSE IF Len(excludes) > 0 THEN "exclude"
    ELSE "collect"

\* Branch without the fast path: no parameters build a handler like collect[]
Branch_NoFastPath(collects, excludes) ==
    IF Len(collects) > 0 /\ Len(excludes) > 0 THEN "combined"
    ELSE IF Len(excludes) > 0 THEN "exclude"
    ELSE "collect"

\* which way ServeHTTP goes for the two parameter lists
Branch(collects, excludes) ==
    IF Len(collects) = 0 /\ Len(excludes) = 0 THEN "unfiltered"
    ELSE IF Len(collects) > 0 /\ Len(excludes) > 0 THEN "combined"
    ELSE IF Len(excludes) > 0 THEN "exclude"
    ELSE "collect"

\* CollectFilters putting the names in order before they are used
CollectFilters_Sorted(collects) == SortedSeq(collects)

\* filters := &collects: without exclude[] the filters are the collect[]
\* values themselves
CollectFilters(collects) == collects

\* one iteration of the exclude loop: f after looking at the collector c
ExcludeStep(f, excludes, c) ==
    IF SlicesIndex(excludes, c) = -1 THEN Append(f, c) ELSE f

\* requests that are past the parameter check and have not built a registry yet
Building == {t \in conns : pc[t] \in {"range", "append", "sort"}}

\* room for one more filtered handler within MaxFiltered
BuildBudget == (registries - 1) + Cardinality(Building) < MaxFiltered

\* the appends to enabledCollectors that requests under way will still make
PendingAppends(t) ==
    IF pc[t] = "range" /\ enabledFlags \subseteq Range(rq[t].excludes)
    THEN Cardinality(enabledFlags)
    ELSE IF pc[t] = "append" THEN Cardinality(rq[t].todo) ELSE 0

RECURSIVE SumPending(_)
SumPending(S) ==
    IF S = {} THEN 0
    ELSE LET t == CHOOSE x \in S : TRUE IN PendingAppends(t) + SumPending(S \ {t})

\* room for one more request that registers the enabled collectors again
RebuildBudget ==
    enabledCollectors.len + SumPending(conns) + Cardinality(enabledFlags) <= MaxListLen

\* innerHandler from r := prometheus.NewRegistry() on, and the return into
\* ServeHTTP, which is about to call filteredHandler.ServeHTTP
RegisterAndReturn(t, r1) ==
    /\ registries' = registries + 1
    /\ rq' = [rq EXCEPT ![t] = [r1 EXCEPT !.handler = MakeHandler(registries + 1, r1.nc)]]
    /\ pc' = [pc EXCEPT ![t] = "call"]
    /\ UNCHANGED rsp

\* h.innerHandler(filters...) called by ServeHTTP, up to its first write to
\* h.enabledCollectors (no filters) or to its return (filters)
CallInnerHandler(t, filters, r1) ==
    LET nc == NewNodeCollector(enabledFlags, filters)
        r2 == [r1 EXCEPT !.filters = filters, !.nc = nc.Collectors]
    IN  IF ~nc.ok
        THEN /\ rsp' = [rsp EXCEPT ![t].status = BuildFailed(CollectorErr(nc.err)).status,
                                   ![t].body = BuildFailed(CollectorErr(nc.err)).body]
             /\ rq' = [rq EXCEPT ![t] = r2]
             /\ pc' = [pc EXCEPT ![t] = "done"]
             /\ UNCHANGED registries
        ELSE IF Len(filters) = 0
        THEN /\ rq' = [rq EXCEPT ![t] = [r2 EXCEPT !.todo = nc.Collectors]]
             /\ pc' = [pc EXCEPT ![t] = "append"]
             /\ UNCHANGED <<rsp, registries>>
        ELSE RegisterAndReturn(t, r2)

\* handler.ServeHTTP: the parameter check, and for collect[] the whole of
\* innerHandler; for exclude[] the range expression is evaluated (the slice
\* header is copied) and the loop runs in ExcludeLoop
ServeHTTP(t) ==
    /\ pc[t] = "serve"
    /\ \E q \in queries :
          LET collects == q.collects
              excludes == q.excludes
              br == Branch(collects, excludes)
          IN  CASE br = "unfiltered" ->
                      /\ rq' = [rq EXCEPT ![t] = [RqIdle EXCEPT !.mode = br,
                                                  !.collects = collects,
                                                  !.excludes = excludes,
                                                  !.handler = unfilteredHandler]]
                      /\ pc' = [pc EXCEPT ![t] = "call"]
                      /\ UNCHANGED <<rsp, registries>>
                [] br = "combined" ->
                      /\ rq' = [rq EXCEPT ![t] = [RqIdle EXCEPT !.mode = br,
                                                  !.collects = collects,
                                                  !.excludes = excludes]]
                      /\ rsp' = [rsp EXCEPT ![t].status = CombinedRejected.status,
                                            ![t].body = CombinedRejected.body]
                      /\ pc' = [pc EXCEPT ![t] = "done"]
                      /\ UNCHANGED registries
                [] br = "exclude" ->
                      /\ BuildBudget
                      /\ (enabledFlags \subseteq Range(excludes)) => RebuildBudget
                      /\ LET r1 == [RqIdle EXCEPT !.mode = br, !.collects = collects,
                                       !.excludes = excludes,
                                       !.rng = [arr |-> enabledCollectors.arr,
                                                len |-> enabledCollectors.len,
                                                i |-> 1],
                                       !.seen = EnabledList]
                         IN  IF enabledCollectors.len = 0
                             THEN CallInnerHandler(t, <<>>, r1)
                             ELSE /\ rq' = [rq EXCEPT ![t] = r1]
                                  /\ pc' = [pc EXCEPT ![t] = "range"]
                                  /\ UNCHANGED <<rsp, registries>>
                [] br = "collect" ->
                      /\ BuildBudget
                      /\ CallInnerHandler(t, CollectFilters(collects),
                                          [RqIdle EXCEPT !.mode = br,
                                                        !.collects = collects,
                                                        !.excludes = excludes])
    /\ mw' = [mw EXCEPT ![t] = MwIdle]
    /\ UNCHANGED <<phase, mux, config, unfilteredHandler, enabledCollectors, heap,
                   inFlightSem, startupEnabled>>

\* one iteration of `for _, c := range h.enabledCollectors`: the element is
\* read from the backing array the copied header points to; after the last
\* one innerHandler is called with the filters collected
ExcludeLoop(t) ==
    /\ pc[t] = "range"
    /\ LET r == rq[t]
           c == heap[r.rng.arr][r.rng.i]
           f == ExcludeStep(r.f, r.excludes, c)
           r1 == [r EXCEPT !.f = f, !.rng.i = r.rng.i + 1]
       IN  IF r.rng.i < r.rng.len
           THEN /\ rq' = [rq EXCEPT ![t] = r1]
                /\ UNCHANGED <<pc, rsp, registries>>
           ELSE CallInnerHandler(t, f, r1)
    /\ UNCHANGED <<phase, mux, config, unfilteredHandler, enabledCollectors, heap,
                   inFlightSem, mw, startupEnabled>>

\* innerHandler without filters, one iteration of `for n := range
\* nc.Collectors`: h.enabledCollectors = append(h.enabledCollectors, n), the
\* collectors coming in the map's iteration order
AppendEnabled(t) ==
    /\ pc[t] = "append"
    /\ \E n \in rq[t].todo :
          LET a == GoAppend(heap, enabledCollectors, n)
          IN  /\ heap' = a.heap
              /\ enabledCollectors' = a.sl
              /\ rq' = [rq EXCEPT ![t].todo = rq[t].todo \ {n}]
              /\ pc' = [pc EXCEPT ![t] = IF rq[t].todo = {n} THEN "sort" ELSE "append"]
    /\ UNCHANGED <<phase, mux, config, unfilteredHandler, registries, inFlightSem, mw, rsp,
                   startupEnabled>>

\* innerHandler without filters: sort.Strings(h.enabledCollectors), then the
\* registry and the handler
SortEnabled(t) ==
    /\ pc[t] = "sort"
    /\ heap' = GoSortStrings(heap, enabledCollectors)
    /\ RegisterAndReturn(t, rq[t])
    /\ UNCHANGED <<phase, mux, config, unfilteredHandler, enabledCollectors, inFlightSem, mw,
                   startupEnabled>>

(***************************************************************************)
(* The promhttp handler built with MaxRequestsInFlight.                    *)
(***************************************************************************)
\* the handler's non-blocking send on its semaphore channel fails
SemFull(h, sem) == h.max > 0 /\ sem[h.id] >= h.max

LimitReached ==
    [status |-> 503,
     body |-> <<"Limit of concurrent requests reached, try again later.", "\n">>]

\* the promhttp handler is entered: a slot of its semaphore is taken, or the
\* request is answered 503 at once
PromServe(t) ==
    /\ pc[t] = "call"
    /\ LET h == rq[t].handler
       IN  IF SemFull(h, inFlightSem)
           THEN /\ rsp' = [rsp EXCEPT ![t].status = LimitReached.status,
                                      ![t].body = LimitReached.body]
                /\ pc' = [pc EXCEPT ![t] = "done"]
                /\ UNCHANGED inFlightSem
           ELSE /\ inFlightSem' = IF h.max > 0
                                  THEN [inFlightSem EXCEPT ![h.id] = @ + 1]
                                  ELSE inFlightSem
                /\ pc' = [pc EXCEPT ![t] = "gather"]
                /\ UNCHANGED rsp
    /\ UNCHANGED <<phase, mux, config, unfilteredHandler, enabledCollectors, heap,
                   registries, mw, rq, startupEnabled>>

\* the gather ends: the exposition is written and the slot is given back
Gathered(t) ==
    /\ pc[t] = "gather"
    /\ LET h == rq[t].handler
       IN  inFlightSem' = IF h.max > 0
                          THEN [inFlightSem EXCEPT ![h.id] = @ - 1]
                          ELSE inFlightSem
    /\ rsp' = [rsp EXCEPT ![t].status = 200, ![t].body = <<"metrics">>]
    /\ pc' = [pc EXCEPT ![t] = "done"]
    /\ UNCHANGED <<phase, mux, config, unfilteredHandler, enabledCollectors, heap,
                   registries, mw, rq, startupEnabled>>

\* the request is over; the runtime serves the next one on this slot
Finish(t) ==
    /\ pc[t] = "done"
    /\ pc' = [pc EXCEPT ![t] = "idle"]
    /\ mw' = [mw EXCEPT ![t] = MwIdle]
    /\ rq' = [rq EXCEPT ![t] = RqIdle]
    /\ rsp' = [rsp EXCEPT ![t] = RspIdle]
    /\ UNCHANGED <<phase, mux, config, unfilteredHandler, enabledCollectors, heap,
                   registries, inFlightSem, startupEnabled>>

(***************************************************************************)
(* main and newHandler.                                                    *)
(***************************************************************************)
\* NewHandler going on without a handler when innerHandler fails
NewHandler_NoPanic ==
    /\ phase = "init"
    /\ LET nc == NewNodeCollector(enabledFlags, <<>>)
       IN  IF ~nc.ok
           THEN /\ phase' = "built"
                /\ UNCHANGED <<unfilteredHandler, enabledCollectors, heap, registries,
                               startupEnabled>>
           ELSE LET a == AppendAll(heap, enabledCollectors, nc.Collectors)
                    h == GoSortStrings(a.heap, a.sl)
                IN  /\ heap' = h
                    /\ enabledCollectors' = a.sl
                    /\ registries' = registries + 1
                    /\ unfilteredHandler' = MakeHandler(registries + 1, nc.Collectors)
                    /\ startupEnabled' = SliceElems(h, a.sl)
                    /\ phase' = "built"
    /\ UNCHANGED <<mux, config, inFlightSem, pc, mw, rq, rsp>>

\* newHandler, called by main: innerHandler() without filters, alone, before
\* any route is registered and before the listener runs; an error panics
NewHandler ==
    /\ phase = "init"
    /\ LET nc == NewNodeCollector(enabledFlags, <<>>)
       IN  IF ~nc.ok
           THEN /\ phase' = "aborted"
                /\ UNCHANGED <<unfilteredHandler, enabledCollectors, heap, registries,
                               startupEnabled>>
           ELSE LET a == AppendAll(heap, enabledCollectors, nc.Collectors)
                    h == GoSortStrings(a.heap, a.sl)
                IN  /\ heap' = h
                    /\ enabledCollectors' = a.sl
                    /\ registries' = registries + 1
                    /\ unfilteredHandler' = MakeHandler(registries + 1, nc.Collectors)
                    /\ startupEnabled' = SliceElems(h, a.sl)
                    /\ phase' = "built"
    /\ UNCHANGED <<mux, config, inFlightSem, pc, mw, rq, rsp>>

\* the rest of main once newHandler has returned: the routes are registered
\* and web.ListenAndServe starts the listener, or fails and the process exits
Listen ==
    /\ phase = "built"
    /\ mux' = Routes(metricsPath, allowedIPs)
    /\ phase' \in {"listening", "exited"}
    /\ UNCHANGED <<config, unfilteredHandler, enabledCollectors, heap, registries,
                   inFlightSem, pc, mw, rq, rsp, startupEnabled>>

\* the allowlists main may hand to the middleware
AllowLists == SeqsUpTo(AllowEntries, MaxAllow)

\* the default of the flag web.telemetry-path
DefaultMetricsPath == "/metrics"

\* the allowlists of a run that is about the routes
RouteAllowLists == {<<>>, <<E_10_8>>, <<E_192_168_1_5, E_192_168_1_4_31>>}

InitHandler ==
    /\ phase = "init"
    /\ mux = {}
    /\ enabledFlags \in EnabledChoices
    /\ unfilteredHandler = NoHandler
    /\ enabledCollectors = NilSlice
    /\ heap = <<>>
    /\ registries = 0
    /\ inFlightSem = [i \in 1..MaxHandlers |-> 0]
    /\ pc = [t \in Conns |-> "idle"]
    /\ mw = [t \in Conns |-> MwIdle]
    /\ rq = [t \in Conns |-> RqIdle]
    /\ rsp = [t \in Conns |-> RspIdle]
    /\ startupEnabled = <<>>

\* the handler under concurrent requests and under every query, behind one
\* allowlist
Init ==
    /\ InitHandler
    /\ load \in {"concurrent", "sequential"}
    /\ includeExporterMetrics \in BOOLEAN
    /\ maxRequests \in MaxRequestsChoices
    /\ metricsPath = DefaultMetricsPath
    /\ allowedIPs = <<E_10_8>>

\* the default of the flag web.max-requests
DefaultMaxRequests == 40

\* one connection, every allowlist and every remote address, the handler
\* with the defaults of its flags
InitAcl ==
    /\ InitHandler
    /\ load = "acl"
    /\ includeExporterMetrics = TRUE
    /\ maxRequests = DefaultMaxRequests
    /\ metricsPath = DefaultMetricsPath
    /\ allowedIPs \in AllowLists

\* one connection, every path and every remote address, with the metrics on
\* their default path and on "/"
InitRoutes ==
    /\ InitHandler
    /\ load = "routes"
    /\ includeExporterMetrics = TRUE
    /\ maxRequests = DefaultMaxRequests
    /\ metricsPath \in MetricsPaths
    /\ allowedIPs \in RouteAllowLists

Next ==
    \/ NewHandler
    \/ Listen
    \/ \E t \in Conns : Middleware(t)
    \/ \E t \in Conns : LandingPage(t)
    \/ \E t \in Conns : ServeHTTP(t)
    \/ \E t \in Conns : ExcludeLoop(t)
    \/ \E t \in Conns : AppendEnabled(t)
    \/ \E t \in Conns : SortEnabled(t)
    \/ \E t \in Conns : PromServe(t)
    \/ \E t \in Conns : Gathered(t)
    \/ \E t \in Conns : Finish(t)

Spec == Init /\ [][Next]_vars

SpecAcl == InitAcl /\ [][Next]_vars

SpecRoutes == InitRoutes /\ [][Next]_vars

(***************************************************************************)
(* Properties.                                                             *)
(***************************************************************************)
\* the connection t has a request under way past the middleware
InHandler(t) == pc[t] \in {"range", "append", "sort", "call", "gather", "done"}
                    /\ rq[t].mode # "-"

\* C1: the enabled-collector list is written once, by newHandler; whatever
\* requests are served, it keeps the value it had when newHandler returned.
C1_ListWrittenOnce ==
    phase = "listening" => EnabledList = startupEnabled

\* the elements of list that are not in excludes, in list's order
KeptOf(list, excludes) ==
    LET Keep(c) == c \notin Range(excludes) IN SelectSeq(list, Keep)

\* C2: the filter list of an exclude-only request is exactly the elements of
\* enabledCollectors (as the request found it) that are not in exclude[], in
\* their order, none added, duplicated or reordered.
C2_ExcludeFilters ==
    \A t \in Conns :
        (rq[t].mode = "exclude" /\ pc[t] # "range")
            => rq[t].filters = KeptOf(rq[t].seen, rq[t].excludes)

\* the request of t carries both collect[] and exclude[] values
Combined(t) == Len(rq[t].collects) > 0 /\ Len(rq[t].excludes) > 0

\* C3: a request with both collect[] and exclude[] is answered 400 with the
\* fixed message by the step that reads its parameters, and that step builds
\* no registry, calls no handler and leaves enabledCollectors alone.
C3_CombinedRejected ==
    [][\A t \in Conns :
          (pc[t] = "serve" /\ pc'[t] # "serve" /\ Combined(t)')
              => /\ pc'[t] = "done"
                 /\ rsp'[t].status = 400
                 /\ rsp'[t].body
                        = <<"Combined collect and exclude queries are not allowed.">>
                 /\ rq'[t].handler = NoHandler
                 /\ UNCHANGED <<registries, inFlightSem, unfilteredHandler,
                                enabledCollectors, heap>>]_vars

C3_Witness ==
    \E t \in Conns : pc[t] = "done" /\ Combined(t) /\ rsp[t].status = 400
                        /\ registries > 1

\* the middleware of t has denied its request
Denied(t) == mw[t].decision = "denied"

\* C4 as stated: a denied request on a transport that supports takeover gets
\* no status line and no body; the connection is taken over and closed.
C4_DeniedNeverAnswered ==
    \A t \in Conns :
        (Denied(t) /\ mw[t].hijacker \in {"err", "ok"})
            => /\ rsp[t].status = 0 /\ rsp[t].body = <<>>
               /\ rsp[t].hijacked /\ rsp[t].closeCalls >= 1

\* C4 amended: a denied request whose takeover succeeds gets no status line
\* and no body; the connection is taken over and closed, and the downstream
\* handler never sees it.
C4_DeniedTakenOver ==
    \A t \in Conns :
        (Denied(t) /\ mw[t].hijacker = "ok")
            => /\ rsp[t].status = 0 /\ rsp[t].body = <<>>
               /\ rsp[t].hijacked /\ rsp[t].closeCalls >= 1
               /\ rsp[t].nextCalls = 0 /\ pc[t] = "done"

C4_Witness ==
    \E t \in Conns :
        /\ allowedIPs = <<E_10_8>>
        /\ mw[t].remoteAddr = A_8_8_8_8_p
        /\ Denied(t) /\ mw[t].hijacker = "ok"
        /\ rsp[t].hijacked /\ rsp[t].status = 0

\* the 8 bits of a byte, most significant first
Bits8(b) == [i \in 1..8 |-> (b \div Pow2(8 - i)) % 2]

IPBits(ip) == Bits8(ip[1]) \o Bits8(ip[2]) \o Bits8(ip[3]) \o Bits8(ip[4])

\* the allowlist entry is a CIDR range and the address lies in it: the first
\* n bits of the address are those of the entry's address
InCIDR(entry, ip) ==
    LET c == ParseCIDR(entry)
        a == ParseIP(ip)
        base == ParseIP(Slice(entry, 1, IndexByte(entry, "/") - 1))
    IN  c.ok /\ a # NoIP /\ \A i \in 1..c.n : IPBits(a)[i] = IPBits(base)[i]

\* the admission rule: some entry is the address, or is a range holding it
AdmitRule(list, ip) ==
    \E k \in 1..Len(list) :
        list[k] = ip \/ (Contains(list[k], "/") /\ InCIDR(list[k], ip))

\* C5: with a non-empty allowlist a request is admitted (handed to the
\* downstream handler) exactly when its resolved IP is an entry or lies in an
\* entry's CIDR range; entries that are no CIDR range neither match nor stop
\* the check.
C5_AdmissionRule ==
    \A t \in Conns :
        mw[t].decision \in {"allowed", "denied"}
            => /\ (rsp[t].nextCalls = 1) <=> AdmitRule(allowedIPs, mw[t].ip)
               /\ (mw[t].decision = "allowed") <=> (rsp[t].nextCalls = 1)

C5_Witness ==
    \E t \in Conns :
        /\ allowedIPs = <<E_bad_x, E_192_168_1_4_31>>
        /\ mw[t].remoteAddr = A_192_168_1_5_p
        /\ mw[t].decision = "allowed" /\ pc[t] = "serve"

\* C6: with an empty allowlist every request reaches the downstream handler;
\* the middleware drops none and answers none with 500.
C6_EmptyAllowsAll ==
    Len(allowedIPs) = 0
        => \A t \in Conns :
              pc[t] # "idle"
                  => /\ rsp[t].nextCalls = 1
                     /\ ~rsp[t].hijacked /\ rsp[t].closeCalls = 0
                     /\ rsp[t].status # 500
                     /\ mw[t].decision \in {"passthrough", "-"}

C6_Witness ==
    \E t \in Conns :
        /\ Len(allowedIPs) = 0
        /\ mw[t].remoteAddr = A_weird /\ mw[t].hijacker = "none"
        /\ pc[t] = "serve" /\ rsp[t].nextCalls = 1

\* the request of t is filtered and has its handler
Filtered(t) == InHandler(t) /\ rq[t].mode \in {"collect", "exclude"}
                  /\ rq[t].handler # NoHandler

\* C7: every filtered request that gets a handler has a registry and a handler
\* of its own, never the cached one, and the enabled-collector list is as
\* newHandler left it.
C7_FreshRegistryPerRequest ==
    /\ \A t \in Conns :
          Filtered(t) => /\ rq[t].handler.id # unfilteredHandler.id
                         /\ EnabledList = startupEnabled
    /\ \A t, u \in Conns :
          (t # u /\ Filtered(t) /\ Filtered(u)) => rq[t].handler.id # rq[u].handler.id

\* C8: with maxRequests > 0 no more than maxRequests scrapes gather at the
\* same time; with maxRequests = 0 no request is rejected for the limit.
C8_ScrapesBounded ==
    /\ maxRequests > 0 => Cardinality({t \in Conns : pc[t] = "gather"}) <= maxRequests
    /\ maxRequests = 0 => \A t \in Conns : rsp[t].status # 503

\* the request of t carries values of exactly one of collect[] and exclude[]
OneFilter(t) == (Len(rq[t].collects) > 0) # (Len(rq[t].excludes) > 0)

\* C9: when the collectors of a filtered request cannot be built, the step
\* that finds it out answers 400 with the error text, hands the request to no
\* handler, and leaves the enabled-collector list, the cached handler and the
\* server as they were.
C9_BuildFailure ==
    [][\A t \in Conns :
          (/\ pc[t] \in {"serve", "range"} /\ pc'[t] \notin {"serve", "range"}
           /\ OneFilter(t)'
           /\ ~NewNodeCollector(enabledFlags, rq'[t].filters).ok)
              => /\ pc'[t] = "done"
                 /\ rsp'[t].status = 400
                 /\ rsp'[t].body
                        = <<"Couldn't create filtered metrics handler: ",
                            "couldn't create collector: ">>
                              \o NewNodeCollector(enabledFlags, rq'[t].filters).err
                 /\ rq'[t].handler = NoHandler
                 /\ UNCHANGED <<phase, registries, inFlightSem, unfilteredHandler,
                                enabledCollectors, heap>>]_vars

C9_Witness ==
    \E t, u \in Conns :
        /\ pc[t] = "done" /\ rq[t].collects = <<"bogus">>
        /\ rsp[t].status = 400
        /\ rsp[t].body = <<"Couldn't create filtered metrics handler: ",
                           "couldn't create collector: ", "missing collector: ", "bogus">>
        /\ t # u /\ pc[u] = "gather"

\* the request of t carries neither collect[] nor exclude[]
Unfiltered(t) == Len(rq[t].collects) = 0 /\ Len(rq[t].excludes) = 0

\* C10: a request without collect[] and exclude[] goes to the cached handler;
\* no step of it builds a registry or touches enabledCollectors.
C10_FastPath ==
    [][\A t \in Conns :
          /\ (pc[t] = "serve" /\ pc'[t] # "serve" /\ Unfiltered(t)')
                => /\ pc'[t] = "call"
                   /\ rq'[t].handler = unfilteredHandler
                   /\ UNCHANGED <<registries, unfilteredHandler, enabledCollectors, heap>>
          /\ (pc[t] \in {"call", "gather"} /\ pc'[t] # pc[t] /\ Unfiltered(t))
                => /\ rq'[t].handler = unfilteredHandler
                   /\ UNCHANGED <<registries, unfilteredHandler, enabledCollectors, heap>>]_vars

C10_Witness ==
    \E t \in Conns :
        /\ pc[t] = "done" /\ rq[t].mode # "-" /\ Unfiltered(t)
        /\ rsp[t].status = 200 /\ rq[t].handler = unfilteredHandler
        /\ registries = 1

\* the connection of t was closed without a byte written to it
SilentlyClosed(t) ==
    /\ rsp[t].status = 0 /\ rsp[t].body = <<>>
    /\ rsp[t].hijacked /\ rsp[t].closeCalls >= 1

\* the connection of t got a 500 with a body and was not taken over
Answered500(t) ==
    /\ rsp[t].status = 500 /\ Len(rsp[t].body) > 0
    /\ ~rsp[t].hijacked /\ rsp[t].closeCalls = 0

\* C11 as stated: a denied request ends with its connection silently closed,
\* or, exactly when the transport has no takeover capability, with a 500 and
\* an explanatory body; the server goes on.
C11_DeniedTwoWays ==
    \A t \in Conns :
        Denied(t)
            => /\ phase = "listening"
               /\ IF mw[t].hijacker = "none" THEN Answered500(t) ELSE SilentlyClosed(t)

\* C11 amended: a denied request ends with its connection silently closed
\* when the takeover succeeds, and with a 500 and an explanatory body when the
\* transport has no takeover capability or the takeover attempt fails (the
\* body is then the attempt's error text); never both, never anything else,
\* and the server goes on.
C11_DeniedOutcomes ==
    \A t \in Conns :
        Denied(t)
            => /\ phase = "listening" /\ pc[t] = "done"
               /\ SilentlyClosed(t) # Answered500(t)
               /\ (mw[t].hijacker = "ok") <=> SilentlyClosed(t)
               /\ mw[t].hijacker = "none"
                     => rsp[t].body = <<"Webserver doesn't support hijacking", "\n">>
               /\ mw[t].hijacker = "err" => rsp[t].body = <<HijackErr, "\n">>

C11_Witness ==
    \E t, u \in Conns :
        /\ Denied(t) /\ mw[t].hijacker = "none" /\ Answered500(t)
        /\ t # u /\ pc[u] = "gather"

\* the middleware of t has tested a remote address that does not split into
\* host and port
Unsplittable(t) ==
    /\ mw[t].decision \in {"allowed", "denied"}
    /\ ~SplitHostPort(mw[t].remoteAddr).ok

\* the string s is one of the allowlist's entries
Listed(list, s) == \E k \in 1..Len(list) : list[k] = s

\* C12 as stated: a remote address that does not split is itself the resolved
\* IP, and its request is admitted exactly when that string is an entry of
\* the allowlist.
C12_RawLiteralOnly ==
    \A t \in Conns :
        Unsplittable(t)
            => /\ mw[t].ip = mw[t].remoteAddr
               /\ (mw[t].decision = "allowed") <=> Listed(allowedIPs, mw[t].remoteAddr)

\* C12 amended: a remote address that does not split is itself the resolved
\* IP and goes through the same admission test as any other: its request is
\* admitted exactly when the string is an entry of the allowlist or is an IP
\* address inside an entry's CIDR range, and is denied otherwise.
C12_RawAsResolvedIP ==
    \A t \in Conns :
        Unsplittable(t)
            => /\ mw[t].ip = mw[t].remoteAddr
               /\ (mw[t].decision = "allowed")
                     <=> \/ Listed(allowedIPs, mw[t].remoteAddr)
                         \/ \E k \in 1..Len(allowedIPs) :
                               /\ Contains(allowedIPs[k], "/")
                               /\ InCIDR(allowedIPs[k], mw[t].remoteAddr)
               /\ (mw[t].decision = "allowed") <=> (rsp[t].nextCalls = 1)

C12_Witness ==
    \E t \in Conns :
        /\ allowedIPs = <<E_192_168_1_5>>
        /\ mw[t].remoteAddr = A_weird /\ mw[t].ip = A_weird
        /\ Denied(t) /\ pc[t] = "done"

\* C13: requests are handled only once newHandler has built the unfiltered
\* handler and recorded the enabled collectors; before that, and after a
\* failed build, no connection has been touched, and a process that aborted
\* stays aborted.
C13_StartupBeforeTraffic ==
    /\ [](\A t \in Conns :
            /\ (pc[t] # "idle" \/ rsp[t] # RspIdle \/ mw[t] # MwIdle \/ rq[t] # RqIdle)
                  => /\ phase = "listening"
                     /\ unfilteredHandler # NoHandler
                     /\ unfilteredHandler.collectors = enabledFlags
                     /\ startupEnabled # <<>>
                     /\ Range(startupEnabled) = enabledFlags
                     /\ Range(EnabledList) = enabledFlags
            /\ phase \in {"listening", "built"}
                  => /\ unfilteredHandler # NoHandler
                     /\ EnabledList # <<>>
            /\ phase = "init" => mux = {})
    /\ [][(phase \in {"aborted", "exited"}) => UNCHANGED vars]_vars
    /\ [][phase = "init" /\ ~NewNodeCollector(enabledFlags, <<>>).ok
              => phase' = "aborted"]_vars

C13_Witness ==
    \E t \in Conns :
        /\ phase = "listening" /\ mux # {}
        /\ pc[t] = "gather" /\ rq[t].handler = unfilteredHandler
        /\ EnabledList = startupEnabled /\ Len(startupEnabled) = 2

\* the remote address of the request of t is one the allowlist denies
FromDeniedIP(t) ==
    /\ Len(allowedIPs) > 0
    /\ mw[t].remoteAddr # <<>>
    /\ ~IsAllowed(allowedIPs, ResolveIP(mw[t].remoteAddr))

\* C14: every route is behind the middleware with the allowlist of the
\* command line: the metrics path always, the landing page on "/" exactly
\* when the metrics path is not "/"; so with a non-empty allowlist a request
\* from a denied IP reaches neither handler, whatever path it asks for.
C14_EveryRouteRestricted ==
    /\ phase = "listening"
          => /\ \E r \in mux : r.pattern = metricsPath /\ r.handler = "metrics"
             /\ (\E r \in mux : r.handler = "landing") <=> (metricsPath # "/")
             /\ \A r \in mux :
                   /\ r.wrapped /\ r.allowlist = allowedIPs
                   /\ r.handler = "landing" => r.pattern = "/"
             /\ \A p \in RequestPaths : MuxHandler(mux, p) \in mux
    /\ \A t \in Conns :
          FromDeniedIP(t)
              => /\ pc[t] \notin {"serve", "landing"}
                 /\ rsp[t].nextCalls = 0
                 /\ rsp[t].status \notin {200, 404}
                 /\ Denied(t)

C14_Witness ==
    \E t \in Conns :
        /\ metricsPath = "/metrics" /\ allowedIPs = <<E_10_8>>
        /\ mw[t].path = "/other" /\ mw[t].handler = "landing"
        /\ mw[t].remoteAddr = A_8_8_8_8_p
        /\ FromDeniedIP(t) /\ pc[t] = "done" /\ rsp[t].hijacked

\* the request of t carries collect[] values and no exclude[] value
CollectOnly(t) == Len(rq[t].collects) > 0 /\ Len(rq[t].excludes) = 0

\* C15: the filter list a collect-only request hands to innerHandler is its
\* collect[] list, name by name in the same order, duplicates included and
\* names that are not enabled included; whether the request gets a handler
\* is decided by the collector factory alone, on that list.
C15_CollectVerbatim ==
    \A t \in Conns :
        (CollectOnly(t) /\ pc[t] # "serve")
            => /\ rq[t].mode = "collect"
               /\ rq[t].filters = rq[t].collects
               /\ (rq[t].handler # NoHandler)
                     <=> NewNodeCollector(enabledFlags, rq[t].collects).ok
               /\ rq[t].handler # NoHandler
                     => rq[t].handler.collectors = Range(rq[t].collects)
               /\ rq[t].handler = NoHandler
                     => pc[t] = "done" /\ rsp[t].status = 400

C15_Witness ==
    \E t \in Conns :
        /\ rq[t].collects = <<"disk", "cpu">> /\ rq[t].excludes = <<>>
        /\ rq[t].filters = <<"disk", "cpu">>
        /\ pc[t] = "gather" /\ rq[t].handler.collectors = {"cpu", "disk"}

\* the request of t carries exclude[] values and no collect[] value
ExcludeOnly(t) == Len(rq[t].excludes) > 0 /\ Len(rq[t].collects) = 0

\* C16: the handler that serves an exclude-only request gathers exactly the
\* enabled collectors that exclude[] does not name, so none that it names,
\* also when it names every enabled collector.
C16_ExcludedNeverGathered ==
    \A t \in Conns :
        (ExcludeOnly(t) /\ pc[t] \in {"call", "gather", "done"}
                        /\ rq[t].handler # NoHandler)
            => /\ rq[t].handler.collectors = enabledFlags \ Range(rq[t].excludes)
               /\ rq[t].handler.collectors \cap Range(rq[t].excludes) = {}

\* the request of t is in the hands of a downstream handler
PastMiddleware(t) ==
    pc[t] \in {"serve", "landing", "range", "append", "sort", "call", "gather"}

\* C17: with a non-empty allowlist the downstream handler is called once for
\* an admitted request and not at all for a denied one, whether the writer is
\* no Hijacker, Hijack() fails or Hijack() succeeds; a request is downstream
\* only after that one call.
C17_NextCalledOnceIfAdmitted ==
    Len(allowedIPs) > 0
        => \A t \in Conns :
              /\ rsp[t].nextCalls \in {0, 1}
              /\ mw[t].decision = "allowed"
                    => rsp[t].nextCalls = 1 /\ pc[t] \in {"serve", "landing", "done"}
              /\ mw[t].decision = "denied"
                    => /\ mw[t].hijacker \in Transports
                       /\ rsp[t].nextCalls = 0 /\ pc[t] = "done"
                       /\ rq[t] = RqIdle
              /\ PastMiddleware(t) => rsp[t].nextCalls = 1
              /\ mw[t].decision \notin {"passthrough", "unwrapped"}

C17_Witness ==
    \E t \in Conns :
        /\ Len(allowedIPs) > 0
        /\ mw[t].decision = "denied" /\ mw[t].hijacker = "err"
        /\ rsp[t].status = 500 /\ rsp[t].nextCalls = 0 /\ pc[t] = "done"

\* the orderings of the positions 1..n
Orderings(n) == {p \in [1..n -> 1..n] : \A i, j \in 1..n : p[i] = p[j] => i = j}

\* the lists with the entries of list in another order
PermutationsOf(list) ==
    {[i \in 1..Len(list) |-> list[p[i]]] : p \in Orderings(Len(list))}

\* the lists that are list with the entry e put in at some position
WithEntry(list, e) ==
    {SubSeq(list, 1, k) \o <<e>> \o SubSeq(list, k + 1, Len(list)) : k \in 0..Len(list)}

\* C18: the decision taken for a request under a non-empty allowlist is the
\* decision under every reordering of that allowlist, and a request that was
\* admitted is admitted under the allowlist with any entry added anywhere.
C18_OrderIndependent ==
    \A t \in Conns :
        (Len(allowedIPs) > 0 /\ mw[t].decision \in {"allowed", "denied"})
            => /\ \A l \in PermutationsOf(allowedIPs) :
                     IsAllowed(l, mw[t].ip) <=> (mw[t].decision = "allowed")
               /\ mw[t].decision = "allowed"
                     => \A e \in AllowEntries : \A l \in WithEntry(allowedIPs, e) :
                           IsAllowed(l, mw[t].ip)

C18_Witness ==
    \E t \in Conns :
        /\ allowedIPs = <<E_bad_33, E_10_8>>
        /\ mw[t].remoteAddr = A_10_1_2_3_p
        /\ mw[t].decision = "allowed" /\ rsp[t].nextCalls = 1
        /\ IsAllowed(<<E_10_8, E_bad_33>>, mw[t].ip)

\* C19: for a denied request Hijack() is called at most once, and when it
\* succeeds Close() is called exactly once on the connection taken over and
\* nothing is written to it.
C19_TakeoverOneShot ==
    \A t \in Conns :
        Denied(t)
            => /\ rsp[t].hijackCalls <= 1
               /\ rsp[t].hijacked
                     => /\ rsp[t].hijackCalls = 1
                        /\ rsp[t].closeCalls = 1
                        /\ rsp[t].status = 0 /\ rsp[t].body = <<>>

=============================================================================
